---- MODULE Spec2Model ----
(***************************************************************************)
(* The credential cache (spotify-api.ts) and the call-tool handler of the  *)
(* Spotify MCP server, as a state machine.  Every dispatch is one slot of  *)
(* `calls`; it moves through the handler's synchronous prefix (CallTool),  *)
(* the token exchange (TokenResponse), the resource requests (SendRequest, *)
(* ResourceResponse) and ends with one response envelope.                  *)
(***************************************************************************)
EXTENDS Integers, Sequences, FiniteSets, TLC

(***************************************************************************)
(* Bounds of the model.                                                    *)
(***************************************************************************)
NumSlots == 2        \* dispatches that may be in flight together (SpecConcurrent)
MaxTicks == 3        \* clock advances in one behaviour
TickMs == 900        \* milliseconds one clock advance adds
MaxSeeds == 3        \* longest seed array of one seed field
MaxIssued == 2       \* tokens the token endpoint issues in one behaviour
MaxMinutes == 10     \* longest duration formatted, in minutes

(***************************************************************************)
(* JavaScript values: a type tag and a payload.  For a string the payload  *)
(* 0 is the empty string and k > 0 names a non-empty string; for an array  *)
(* it is the length; for a number the value.  NaN has typeof "number" in   *)
(* JavaScript and is kept apart here because every comparison with it is   *)
(* false.                                                                  *)
(***************************************************************************)
Undefined == [t |-> "undefined", v |-> 0]
Null == [t |-> "null", v |-> 0]
NaN == [t |-> "NaN", v |-> 0]
Num(n) == [t |-> "number", v |-> n]
Str(k) == [t |-> "string", v |-> k]
Arr(n) == [t |-> "array", v |-> n]

\* `x && ...`: truthiness of the values the model holds.
Truthy(x) ==
    \/ x.t = "string" /\ x.v # 0
    \/ x.t = "number" /\ x.v # 0
    \/ x.t = "array"

\* `a > b` on JavaScript numbers: false as soon as one side is NaN.
Gt(a, b) == a.t = "number" /\ b.t = "number" /\ a.v > b.v

\* `a + b` on JavaScript numbers and undefined (undefined and NaN give NaN).
Plus(a, b) ==
    IF a.t = "number" /\ b.t = "number" THEN Num(a.v + b.v) ELSE NaN

\* `x.length` where x is not null/undefined: arrays have one, numbers do not.
Length(x) == IF x.t = "array" THEN Num(x.v) ELSE Undefined

\* `"k" in args` for arguments that arrived as JSON.
In(x) == x.t # "undefined"

\* The program's numeric literals.
SearchMax == 50
RecommendationsMax == 100
UserPlaylistsMax == 50
PlaylistTracksMax == 100
MaxSeedTotal == 5
MsPerSecond == 1000

(***************************************************************************)
(* Tool names, in the order the list-tools handler advertises them.        *)
(***************************************************************************)
SEARCH_TRACKS == "spotify_search_tracks"
GET_RECOMMENDATIONS == "spotify_get_recommendations"
CREATE_PLAYLIST == "spotify_create_playlist"
ADD_TRACKS_TO_PLAYLIST == "spotify_add_tracks_to_playlist"
GET_USER_PLAYLISTS == "spotify_get_user_playlists"
GET_PLAYLIST_TRACKS == "spotify_get_playlist_tracks"

MutListToolsRepeatsOne ==
    << SEARCH_TRACKS, GET_RECOMMENDATIONS, CREATE_PLAYLIST,
       ADD_TRACKS_TO_PLAYLIST, GET_USER_PLAYLISTS, GET_USER_PLAYLISTS >>
ListTools ==
    << SEARCH_TRACKS, GET_RECOMMENDATIONS, CREATE_PLAYLIST,
       ADD_TRACKS_TO_PLAYLIST, GET_USER_PLAYLISTS, GET_PLAYLIST_TRACKS >>

\* The case labels of the call-tool handler's switch.
CaseLabels ==
    { "spotify_search_tracks", "spotify_get_recommendations",
      "spotify_create_playlist", "spotify_add_tracks_to_playlist",
      "spotify_get_user_playlists", "spotify_get_playlist_tracks" }

(***************************************************************************)
(* Type guards of tools.ts.  `args` is the arguments object of the request *)
(* (an object whenever it is present, so `typeof args === "object" &&      *)
(* args !== null` holds); a field that was not sent is Undefined.          *)
(***************************************************************************)
isSearchTracksArgs(args) ==
    In(args.query) /\ args.query.t = "string"

isGetRecommendationsArgs(args) ==
    \/ In(args.seed_tracks) /\ args.seed_tracks.t = "array"
    \/ In(args.seed_artists) /\ args.seed_artists.t = "array"
    \/ In(args.seed_genres) /\ args.seed_genres.t = "array"

isCreatePlaylistArgs(args) ==
    In(args.name) /\ args.name.t = "string"

isAddTracksToPlaylistArgs(args) ==
    /\ In(args.playlist_id) /\ args.playlist_id.t = "string"
    /\ In(args.track_uris) /\ args.track_uris.t = "array"

isGetUserPlaylistsArgs(args) == TRUE

isGetPlaylistTracksArgs(args) ==
    In(args.playlist_id) /\ args.playlist_id.t = "string"

\* The guard the handler's switch applies under each case label.
Guard(name, args) ==
    CASE name = SEARCH_TRACKS -> isSearchTracksArgs(args)
      [] name = GET_RECOMMENDATIONS -> isGetRecommendationsArgs(args)
      [] name = CREATE_PLAYLIST -> isCreatePlaylistArgs(args)
      [] name = ADD_TRACKS_TO_PLAYLIST -> isAddTracksToPlaylistArgs(args)
      [] name = GET_USER_PLAYLISTS -> isGetUserPlaylistsArgs(args)
      [] name = GET_PLAYLIST_TRACKS -> isGetPlaylistTracksArgs(args)
      [] OTHER -> FALSE

(***************************************************************************)
(* Errors and the text of an envelope.  A text is kept as its parts: the   *)
(* text is prefix, msg, name and (when not 0) status written one after the *)
(* other.                                                                  *)
(***************************************************************************)
Error(msg, name, status) == [msg |-> msg, name |-> name, status |-> status]
NoError == Error("", "", 0)

Text(prefix, msg, name, status) ==
    [prefix |-> prefix, msg |-> msg, name |-> name, status |-> status]

Envelope(isError, text) == [isError |-> isError, text |-> text]
NoEnvelope == Envelope(FALSE, Text("", "", "", 0))

\* The handler's catch block: `Error: ${error.message}`, isError true.
MutCatchNotError(error) ==
    Envelope(FALSE, Text("Error: ", error.msg, error.name, error.status))
CatchEnvelope(error) ==
    Envelope(TRUE, Text("Error: ", error.msg, error.name, error.status))

\* The switch's default branch.
DefaultEnvelope(name) == Envelope(TRUE, Text("Unknown tool: ", "", name, 0))

\* The `return { content: [{type: "text", text: results}], isError: false }`
\* of every case.
ResultEnvelope(results) == Envelope(FALSE, Text("", results, "", 0))

(***************************************************************************)
(* getRecommendations, up to its call of getAccessToken: the defaults of   *)
(* the destructuring and the two seed checks.                              *)
(***************************************************************************)
Default(x, d) == IF x.t = "undefined" THEN d ELSE x

SeedTotal(args) ==
    Plus(Plus(Length(Default(args.seed_tracks, Arr(0))),
              Length(Default(args.seed_artists, Arr(0)))),
         Length(Default(args.seed_genres, Arr(0))))

MutSeedCheckSix(args) ==
    IF Null \in {args.seed_tracks, args.seed_artists, args.seed_genres}
    THEN Error("Cannot read properties of null (reading 'length')", "", 0)
    ELSE IF SeedTotal(args) = Num(0)
    THEN Error("At least one seed track, artist, or genre is required", "", 0)
    ELSE IF Gt(SeedTotal(args), Num(MaxSeedTotal + 1))
    THEN Error("You can only use a total of 5 seeds (tracks, artists, and genres combined)", "", 0)
    ELSE NoError
SeedCheck(args) ==
    IF Null \in {args.seed_tracks, args.seed_artists, args.seed_genres}
    THEN Error("Cannot read properties of null (reading 'length')", "", 0)
    ELSE IF SeedTotal(args) = Num(0)
    THEN Error("At least one seed track, artist, or genre is required", "", 0)
    ELSE IF Gt(SeedTotal(args), Num(MaxSeedTotal))
    THEN Error("You can only use a total of 5 seeds (tracks, artists, and genres combined)", "", 0)
    ELSE NoError

\* What an operation function does before its `await getAccessToken()`.
OperationPrefix(name, args) ==
    IF name = GET_RECOMMENDATIONS THEN SeedCheck(args) ELSE NoError

(***************************************************************************)
(* The handler from its entry to the call of the operation function:       *)
(* "throw" with the error, "unknown" (the default branch) or "invoke".     *)
(***************************************************************************)
MutRouteNameFirst(req) ==
    IF req.name \notin CaseLabels
    THEN [k |-> "unknown", error |-> NoError]
    ELSE IF ~req.hasArgs
    THEN [k |-> "throw", error |-> Error("No arguments provided", "", 0)]
    ELSE IF ~Guard(req.name, req.args)
    THEN [k |-> "throw", error |-> Error("Invalid arguments for ", req.name, 0)]
    ELSE [k |-> "invoke", error |-> NoError]
MutRouteNoGuard(req) ==
    IF ~req.hasArgs
    THEN [k |-> "throw", error |-> Error("No arguments provided", "", 0)]
    ELSE IF req.name \notin CaseLabels
    THEN [k |-> "unknown", error |-> NoError]
    ELSE [k |-> "invoke", error |-> NoError]
Route(req) ==
    IF ~req.hasArgs
    THEN [k |-> "throw", error |-> Error("No arguments provided", "", 0)]
    ELSE IF req.name \notin CaseLabels
    THEN [k |-> "unknown", error |-> NoError]
    ELSE IF ~Guard(req.name, req.args)
    THEN [k |-> "throw", error |-> Error("Invalid arguments for ", req.name, 0)]
    ELSE [k |-> "invoke", error |-> NoError]


(***************************************************************************)
(* Credential store: getAccessToken of spotify-api.ts.                     *)
(***************************************************************************)
\* `a * b` on JavaScript numbers and undefined.
Times(a, b) ==
    IF a.t = "number" /\ b.t = "number" THEN Num(a.v * b.v) ELSE NaN

\* `x * 0.9` in IEEE doubles.  For every integer multiple of 1000 below 2^53
\* the rounded product is the exact nine tenths, an integer.
TimesNineTenths(x) ==
    IF x.t = "number" THEN Num((x.v * 9) \div 10) ELSE NaN

\* `accessToken && tokenExpiryTime > Date.now()`
MutFreshInverted(token, expiry, t) == Truthy(token) /\ Gt(Num(t), expiry)
TokenIsFresh(token, expiry, t) == Truthy(token) /\ Gt(expiry, Num(t))

\* `Date.now() + (data.expires_in * 1000 * 0.9)`
MutExpiryFullLifetime(t, expires_in) ==
    Plus(Num(t), Times(expires_in, Num(MsPerSecond)))
NewExpiry(t, expires_in) ==
    Plus(Num(t), TimesNineTenths(Times(expires_in, Num(MsPerSecond))))

\* Non-2xx statuses the upstream answers with in the model.
ErrorStatuses == {401, 500}

\* Lifetimes (seconds) the token endpoint grants in the model.
ExpiresInValues == {Undefined, Num(0), Num(1), Num(2), Num(3600)}

HttpResponse(k, status, body, access_token, expires_in) ==
    [k |-> k, status |-> status, body |-> body,
     access_token |-> access_token, expires_in |-> expires_in]
NoResponse == HttpResponse("none", 0, "", Undefined, Undefined)

\* What the fetch of the token endpoint can come back with when `n` tokens
\* were issued before: a rejected fetch, a non-2xx answer, a 2xx answer whose
\* body is no JSON, is the JSON null, or is a JSON object.  The upstream never
\* issues the same token twice.
TokenFailures ==
    {HttpResponse("neterr", 0, "", Undefined, Undefined)}
    \cup {HttpResponse("status", s, "error", Undefined, Undefined) : s \in ErrorStatuses}
    \cup {HttpResponse("ok", 200, b, Undefined, Undefined) : b \in {"notjson", "null"}}

TokenResponses(n) ==
    TokenFailures
    \cup {HttpResponse("ok", 200, "object", a, e) :
            a \in {Undefined, Str(0), Str(n + 1)}, e \in ExpiresInValues}

\* A token endpoint that fails (rejected fetch, or a 2xx answer whose JSON
\* object has neither field) or grants a fresh token for one or two seconds.
OverlapTokenResponses(n) ==
    {HttpResponse("neterr", 0, "", Undefined, Undefined),
     HttpResponse("ok", 200, "object", Undefined, Undefined)}
    \cup {HttpResponse("ok", 200, "object", Str(n + 1), Num(e)) : e \in {1, 2}}

\* A token endpoint that fails or grants a fresh token for one second or for
\* one hour.
DelayTokenResponses(n) ==
    {HttpResponse("neterr", 0, "", Undefined, Undefined)}
    \cup {HttpResponse("ok", 200, "object", Str(n + 1), Num(e)) : e \in {1, 3600}}

\* The instant at which the upstream expires a token it issued at instant
\* `at` with the lifetime expires_in, in seconds.
UpstreamExpiry(at, expires_in) ==
    Plus(Num(at), Times(expires_in, Num(MsPerSecond)))

\* The token endpoint as documented: it fails, or grants a fresh token for
\* one hour.
DocumentedTokenResponses(n) ==
    TokenFailures \cup {HttpResponse("ok", 200, "object", Str(n + 1), Num(3600))}

\* getAccessToken from the arrival of the token endpoint's answer (lines
\* 56-72) at clock reading t: it throws, or writes the pair and returns.
Renewal(resp, t) ==
    IF resp.k = "neterr"
    THEN [k |-> "throw", error |-> Error("fetch failed", "", 0),
          accessToken |-> Undefined, tokenExpiryTime |-> NaN]
    ELSE IF resp.k = "status"
    THEN [k |-> "throw",
          error |-> Error("Failed to get access token: ", "", resp.status),
          accessToken |-> Undefined, tokenExpiryTime |-> NaN]
    ELSE IF resp.body = "notjson"
    THEN [k |-> "throw", error |-> Error("Unexpected token in JSON", "", 0),
          accessToken |-> Undefined, tokenExpiryTime |-> NaN]
    ELSE IF resp.body = "null"
    THEN [k |-> "throw",
          error |-> Error("Cannot read properties of null (reading 'access_token')", "", 0),
          accessToken |-> Undefined, tokenExpiryTime |-> NaN]
    ELSE [k |-> "return", error |-> NoError,
          accessToken |-> resp.access_token,
          tokenExpiryTime |-> NewExpiry(t, resp.expires_in)]

(***************************************************************************)
(* Remote operations: the requests each operation function issues.         *)
(***************************************************************************)
SearchDefault == 10
RecommendationsDefault == 20
UserPlaylistsDefault == 20
PlaylistTracksDefault == 50

\* Math.min on JavaScript numbers.
MutMinIsFirst(a, b) == a
MathMin(a, b) ==
    IF a.t = "number" /\ b.t = "number"
    THEN Num(IF a.v < b.v THEN a.v ELSE b.v)
    ELSE NaN

\* Number of resource requests of an operation that runs to its end.
MutStagesAlwaysTwo(name) == 2
Stages(name) ==
    IF name \in {CREATE_PLAYLIST, GET_PLAYLIST_TRACKS} THEN 2 ELSE 1

Endpoint(name, stage) ==
    CASE name = SEARCH_TRACKS -> "GET /v1/search"
      [] name = GET_RECOMMENDATIONS -> "GET /v1/recommendations"
      [] name = CREATE_PLAYLIST /\ stage = 1 -> "GET /v1/me"
      [] name = CREATE_PLAYLIST -> "POST /v1/users/{id}/playlists"
      [] name = ADD_TRACKS_TO_PLAYLIST -> "POST /v1/playlists/{id}/tracks"
      [] name = GET_USER_PLAYLISTS -> "GET /v1/me/playlists"
      [] name = GET_PLAYLIST_TRACKS /\ stage = 1 -> "GET /v1/playlists/{id}"
      [] OTHER -> "GET /v1/playlists/{id}/tracks"

\* The `limit` search parameter of the request (Undefined: it has none).
LimitParam(name, stage, args) ==
    CASE name = SEARCH_TRACKS ->
           MathMin(Default(args.limit, Num(SearchDefault)), Num(SearchMax))
      [] name = GET_RECOMMENDATIONS ->
           MathMin(Default(args.limit, Num(RecommendationsDefault)),
                   Num(RecommendationsMax))
      [] name = GET_USER_PLAYLISTS ->
           MathMin(Default(args.limit, Num(UserPlaylistsDefault)),
                   Num(UserPlaylistsMax))
      [] name = GET_PLAYLIST_TRACKS /\ stage = 2 ->
           MathMin(Default(args.limit, Num(PlaylistTracksDefault)),
                   Num(PlaylistTracksMax))
      [] OTHER -> Undefined

HttpRequest(endpoint, limit, bearer) ==
    [endpoint |-> endpoint, limit |-> limit, bearer |-> bearer]

TokenRequest == HttpRequest("POST /api/token", Undefined, Undefined)

MutSecondRequestNoBearer(name, stage, args, token) ==
    HttpRequest(Endpoint(name, stage), LimitParam(name, stage, args),
                IF stage = 1 THEN token ELSE Undefined)
ResourceRequest(name, stage, args, token) ==
    HttpRequest(Endpoint(name, stage), LimitParam(name, stage, args), token)

\* What the fetch of a resource endpoint can come back with: a rejected
\* fetch, a non-2xx answer, or a 2xx answer whose body has items, has none,
\* or cannot be read as the operation expects (no JSON, missing fields).
ResourceResponses ==
    {HttpResponse("neterr", 0, "", Undefined, Undefined)}
    \cup {HttpResponse("status", s, "error", Undefined, Undefined) : s \in ErrorStatuses}
    \cup {HttpResponse("ok", 200, b, Undefined, Undefined) :
            b \in {"items", "empty", "malformed"}}

\* The text an operation returns for the body of its last request.
MutResultTextNoEmptyState(name, body) ==
    CASE name = SEARCH_TRACKS -> "Found tracks matching"
      [] name = GET_RECOMMENDATIONS -> "Recommendations based on:"
      [] name = CREATE_PLAYLIST -> "Successfully created playlist"
      [] name = ADD_TRACKS_TO_PLAYLIST -> "Successfully added track(s) to the playlist!"
      [] name = GET_USER_PLAYLISTS -> "Found playlists"
      [] OTHER -> "Tracks in"
ResultText(name, body) ==
    CASE name = SEARCH_TRACKS ->
           IF body = "empty" THEN "No tracks found matching your query."
           ELSE "Found tracks matching"
      [] name = GET_RECOMMENDATIONS ->
           IF body = "empty" THEN "No recommendations found with your criteria."
           ELSE "Recommendations based on:"
      [] name = CREATE_PLAYLIST -> "Successfully created playlist"
      [] name = ADD_TRACKS_TO_PLAYLIST -> "Successfully added track(s) to the playlist!"
      [] name = GET_USER_PLAYLISTS ->
           IF body = "empty" THEN "You don't have any playlists yet."
           ELSE "Found playlists"
      [] OTHER ->
           IF body = "empty" THEN "Playlist \"{playlistData.name}\" is empty."
           ELSE "Tracks in"

\* The error an operation throws on an answer it cannot use.
MutResourceErrorNoStatus(resp) == Error("Spotify API error: ", "", 0)
ResourceError(resp) ==
    IF resp.k = "neterr" THEN Error("fetch failed", "", 0)
    ELSE IF resp.k = "status" THEN Error("Spotify API error: ", "", resp.status)
    ELSE Error("Cannot read properties of undefined", "", 0)


(***************************************************************************)
(* Call-tool requests the model draws from.                                *)
(***************************************************************************)
Arguments(query, name, playlist_id, track_uris, seeds, limit) ==
    [query |-> query, name |-> name, playlist_id |-> playlist_id,
     track_uris |-> track_uris, seed_tracks |-> seeds[1],
     seed_artists |-> seeds[2], seed_genres |-> seeds[3], limit |-> limit]

NoSeeds == <<Undefined, Undefined, Undefined>>
EmptyArguments ==
    Arguments(Undefined, Undefined, Undefined, Undefined, NoSeeds, Undefined)

CallToolRequest(name, hasArgs, args) ==
    [name |-> name, hasArgs |-> hasArgs, args |-> args]
NoRequest == CallToolRequest("", FALSE, EmptyArguments)

\* A field meant to be a string: not sent, a number, the empty string, a
\* non-empty string.
StringFields == {Undefined, Num(7), Str(0), Str(1)}
\* A field meant to be an array: not sent, a string, empty, one element.
ArrayFields == {Undefined, Str(1), Arr(0), Arr(1)}
\* A seed field: not sent, null, a number, an array of 0..MaxSeeds ids.
SeedFields == {Undefined, Null, Num(7)} \cup {Arr(n) : n \in 0..MaxSeeds}
LimitFields ==
    {Undefined} \cup {Num(n) : n \in {-1, 0, 1, 50, 51, 75, 100, 101, 150}}
UnknownNames == {"", "spotify_delete_playlist"}

FullRequests ==
    {CallToolRequest(n, FALSE, EmptyArguments) : n \in CaseLabels \cup UnknownNames}
    \cup {CallToolRequest(n, TRUE, a) : n \in UnknownNames,
            a \in {EmptyArguments,
                   Arguments(Str(1), Undefined, Undefined, Undefined, NoSeeds, Num(75))}}
    \cup {CallToolRequest(SEARCH_TRACKS, TRUE,
            Arguments(q, Undefined, Undefined, Undefined, NoSeeds, l)) :
            q \in StringFields, l \in LimitFields}
    \cup {CallToolRequest(GET_RECOMMENDATIONS, TRUE,
            Arguments(Undefined, Undefined, Undefined, Undefined, <<a, b, c>>, Undefined)) :
            a \in SeedFields, b \in SeedFields, c \in SeedFields}
    \cup {CallToolRequest(GET_RECOMMENDATIONS, TRUE,
            Arguments(Undefined, Undefined, Undefined, Undefined,
                      <<Arr(1), Undefined, Undefined>>, l)) : l \in LimitFields}
    \cup {CallToolRequest(CREATE_PLAYLIST, TRUE,
            Arguments(Undefined, n, Undefined, Undefined, NoSeeds, Undefined)) :
            n \in StringFields}
    \cup {CallToolRequest(ADD_TRACKS_TO_PLAYLIST, TRUE,
            Arguments(Undefined, Undefined, p, u, NoSeeds, Undefined)) :
            p \in StringFields, u \in ArrayFields}
    \cup {CallToolRequest(GET_USER_PLAYLISTS, TRUE,
            Arguments(Undefined, Undefined, Undefined, Undefined, NoSeeds, l)) :
            l \in LimitFields}
    \cup {CallToolRequest(GET_PLAYLIST_TRACKS, TRUE,
            Arguments(Undefined, Undefined, p, Undefined, NoSeeds, l)) :
            p \in StringFields, l \in LimitFields}

\* One well-formed request per tool, one unknown name, one request without
\* arguments and one failing its guard.
CoreRequests ==
    { CallToolRequest(SEARCH_TRACKS, TRUE,
        Arguments(Str(1), Undefined, Undefined, Undefined, NoSeeds, Undefined)),
      CallToolRequest(GET_RECOMMENDATIONS, TRUE,
        Arguments(Undefined, Undefined, Undefined, Undefined,
                  <<Arr(1), Undefined, Undefined>>, Undefined)),
      CallToolRequest(CREATE_PLAYLIST, TRUE,
        Arguments(Undefined, Str(1), Undefined, Undefined, NoSeeds, Undefined)),
      CallToolRequest(ADD_TRACKS_TO_PLAYLIST, TRUE,
        Arguments(Undefined, Undefined, Str(1), Arr(1), NoSeeds, Undefined)),
      CallToolRequest(GET_USER_PLAYLISTS, TRUE, EmptyArguments),
      CallToolRequest(GET_PLAYLIST_TRACKS, TRUE,
        Arguments(Undefined, Undefined, Str(1), Undefined, NoSeeds, Undefined)),
      CallToolRequest("spotify_delete_playlist", TRUE, EmptyArguments),
      CallToolRequest(SEARCH_TRACKS, FALSE, EmptyArguments),
      CallToolRequest(CREATE_PLAYLIST, TRUE, EmptyArguments) }

\* The requests of overlapping dispatches: an operation of one resource
\* request and an operation of two.
OverlapRequests ==
    { CallToolRequest(SEARCH_TRACKS, TRUE,
        Arguments(Str(1), Undefined, Undefined, Undefined, NoSeeds, Undefined)),
      CallToolRequest(CREATE_PLAYLIST, TRUE,
        Arguments(Undefined, Str(1), Undefined, Undefined, NoSeeds, Undefined)) }

(***************************************************************************)
(* Startup: the environment the process reads its client identity from.    *)
(* A value is Undefined (not set) or a string, given by its characters.    *)
(***************************************************************************)
EnvString(chars) == [t |-> "string", chars |-> chars]
EnvNames == <<"SPOTIFY_CLIENT_ID", "SPOTIFY_CLIENT_SECRET", "SPOTIFY_REFRESH_TOKEN">>

startsWith(value, c) == Len(value.chars) > 0 /\ value.chars[1] = c
endsWith(value, c) == Len(value.chars) > 0 /\ value.chars[Len(value.chars)] = c

\* `!value` is false: the variable is set and not the empty string.
IsSet(value) == value # Undefined /\ value.chars # <<>>

\* The test that guards the warning.
HasQuoteOrSpace(value) ==
    \/ startsWith(value, "\"") \/ endsWith(value, "\"")
    \/ startsWith(value, "'") \/ endsWith(value, "'")
    \/ startsWith(value, " ") \/ endsWith(value, " ")

\* What console.error is given: the kind of message and the variable it names.
Line(kind, name) == [kind |-> kind, name |-> name]

CleanValue == EnvString(<<"a", "b">>)
EnvCore ==
    {Undefined, EnvString(<<>>), CleanValue,
     EnvString(<<"\"", "a", "\"">>), EnvString(<<"a", " ">>),
     EnvString(<<"a", "\n">>)}
EnvOther ==
    {EnvString(<<"'", "a">>), EnvString(<<"a", "'">>), EnvString(<<" ", "a">>),
     EnvString(<<"\t", "a">>), EnvString(<<"a", "\t">>),
     EnvString(<<"\n", "a">>), EnvString(<<"a", "\"", "b">>)}
EnvNameSet == {EnvNames[k] : k \in 1..Len(EnvNames)}
CleanEnv == [name \in EnvNameSet |-> CleanValue]
\* Every combination of the core values, and each other value in each place.
Environments ==
    [EnvNameSet -> EnvCore]
    \cup {[CleanEnv EXCEPT ![name] = v] : name \in EnvNameSet, v \in EnvOther}

(***************************************************************************)
(* formatDuration: milliseconds to "m:ss".  A string is the sequence of    *)
(* its characters.                                                         *)
(***************************************************************************)
Digit(d) == <<"0", "1", "2", "3", "4", "5", "6", "7", "8", "9">>[d + 1]

RECURSIVE toString(_)
toString(n) ==
    IF n < 10 THEN <<Digit(n)>> ELSE toString(n \div 10) \o <<Digit(n % 10)>>

RECURSIVE padStart(_, _, _)
padStart(str, targetLength, padString) ==
    IF Len(str) >= targetLength THEN str
    ELSE padStart(<<padString>> \o str, targetLength, padString)

MutFormatNoPadding(ms) ==
    LET totalSeconds == ms \div 1000
        minutes == totalSeconds \div 60
        seconds == totalSeconds % 60
    IN toString(minutes) \o <<":">> \o toString(seconds)
formatDuration(ms) ==
    LET totalSeconds == ms \div 1000
        minutes == totalSeconds \div 60
        seconds == totalSeconds % 60
    IN toString(minutes) \o <<":">> \o padStart(toString(seconds), 2, "0")

\* Durations the formatter is applied to: every whole second up to
\* MaxMinutes minutes and 59 seconds, at its first and its last millisecond.
Durations ==
    {(m * 60 + sec) * 1000 + r : m \in 0..MaxMinutes, sec \in 0..59, r \in {0, 999}}

(***************************************************************************)
(* State.                                                                  *)
(***************************************************************************)
VARIABLES
    now,              \* Date.now()
    accessToken,      \* spotify-api.ts: let accessToken
    tokenExpiryTime,  \* spotify-api.ts: let tokenExpiryTime
    issued,           \* tokens the token endpoint has issued
    calls,            \* the call-tool handler's activations, one per slot
    upstreamExpiry,   \* when the upstream expires the token of the last
                      \* answer written to the cache
    mode,             \* which requests and upstream answers the behaviour
                      \* draws from, fixed by the initial state
    env,              \* process.env
    server,           \* "absent", "connecting" (constructed, handlers set) or
                      \* "serving" (transport connected)
    exitCode,         \* Undefined while the process runs
    stderr,           \* what console.error has been given
    listed,           \* the list-tools reply being handed to the transport
    duration,         \* the argument formatDuration is applied to
    formatted         \* its result

dispatch == <<now, accessToken, tokenExpiryTime, issued, calls, upstreamExpiry, mode>>
process == <<env, server, exitCode, stderr>>
formatter == <<duration, formatted>>
vars == <<dispatch, process, listed, formatter>>

Slots == 1..NumSlots

\* "inputs": one dispatch at a time, every request of FullRequests, the token
\* endpoint as documented.  "upstream": one dispatch at a time, CoreRequests,
\* every answer of the token endpoint.  "concurrent": NumSlots dispatches at
\* a time, OverlapRequests, a token endpoint that fails or grants one or two
\* seconds.  "startup": the process from its first statement, then one
\* dispatch at a time, CoreRequests, the token endpoint as documented.
\* "delay": one dispatch at a time, OverlapRequests, a token endpoint that
\* fails or grants one second or one hour, and whose answer may have been
\* issued at any clock reading since the request was made; in the other
\* modes an answer arrives at the reading at which it was issued.
ActiveSlots == IF mode = "concurrent" THEN Slots ELSE {1}
Requests ==
    CASE mode = "inputs" -> FullRequests
      [] mode \in {"concurrent", "delay"} -> OverlapRequests
      [] OTHER -> CoreRequests
Upstream ==
    CASE mode = "upstream" -> TokenResponses(issued)
      [] mode = "concurrent" -> OverlapTokenResponses(issued)
      [] mode = "delay" -> DelayTokenResponses(issued)
      [] OTHER -> DocumentedTokenResponses(issued)

\* One activation of the handler: where it is (pc), its request, the token
\* getAccessToken returned to it and how (via), the requests it has made
\* (sent), the clock reading at which its pending token request was made
\* (pendingSince, 0: none pending), the answers it received, the error it
\* caught and its envelope.
IdleSlot ==
    [pc |-> "idle", req |-> NoRequest, token |-> Undefined, via |-> "none",
     sent |-> <<>>, pendingSince |-> 0, tokenResp |-> NoResponse,
     resResp |-> NoResponse, error |-> NoError, response |-> NoEnvelope]

\* The clock readings at which the answer now arriving at the activation can
\* have been issued.
IssueInstants(slot) ==
    IF mode = "delay"
    THEN {k * TickMs : k \in 1..(MaxTicks + 1)} \cap (slot.pendingSince..now)
    ELSE {now}

Caught(slot, error) ==
    [slot EXCEPT !.pc = "done", !.error = error, !.response = CatchEnvelope(error)]

InitCommon ==
    /\ now = TickMs
    /\ accessToken = Str(0)
    /\ tokenExpiryTime = Num(0)
    /\ issued = 0
    /\ upstreamExpiry = Undefined
    /\ calls = [i \in Slots |-> IdleSlot]
    /\ listed = <<>>
    /\ formatted = <<>>

\* A process that started with a clean environment and is serving.
InitServing ==
    /\ InitCommon
    /\ env = CleanEnv
    /\ server = "serving"
    /\ exitCode = Undefined
    /\ stderr = <<Line("validated", ""), Line("running", "")>>

Init == InitServing /\ mode = "inputs" /\ duration = 0
InitUpstream == InitServing /\ mode = "upstream" /\ duration = 0
InitConcurrent == InitServing /\ mode = "concurrent" /\ duration = 0
InitDelay == InitServing /\ mode = "delay" /\ duration = 0

\* A process about to run the module's top level, in any environment.
InitStartup ==
    /\ InitCommon
    /\ mode = "startup"
    /\ duration = 0
    /\ env \in Environments
    /\ server = "absent"
    /\ exitCode = Undefined
    /\ stderr = <<>>

Serving == server = "serving" /\ exitCode = Undefined

(***************************************************************************)
(* The handler receives a request and runs to its first suspension: the    *)
(* argument checks, the switch, the operation's own checks and the         *)
(* synchronous part of getAccessToken (cache test, start of the exchange). *)
(***************************************************************************)
CallTool(i, req) ==
    /\ Serving
    /\ i \in ActiveSlots
    /\ calls[i].pc = "idle"
    /\ LET slot == [IdleSlot EXCEPT !.req = req]
           route == Route(req)
           early == OperationPrefix(req.name, req.args)
       IN calls' = [calls EXCEPT ![i] =
            IF route.k = "throw" THEN Caught(slot, route.error)
            ELSE IF route.k = "unknown"
            THEN [slot EXCEPT !.pc = "done", !.response = DefaultEnvelope(req.name)]
            ELSE IF early # NoError THEN Caught(slot, early)
            ELSE IF TokenIsFresh(accessToken, tokenExpiryTime, now)
            THEN [slot EXCEPT !.pc = "haveToken", !.token = accessToken,
                              !.via = "cache"]
            ELSE [slot EXCEPT !.pc = "tokenFetch", !.via = "renewal",
                              !.sent = <<TokenRequest>>,
                              !.pendingSince = now]]
    /\ UNCHANGED <<now, accessToken, tokenExpiryTime, issued, mode>>
    /\ UNCHANGED <<process, listed, formatter, upstreamExpiry>>

(***************************************************************************)
(* The token endpoint's answer arrives: getAccessToken throws (and the     *)
(* handler catches) or writes the cache and returns the token.             *)
(***************************************************************************)
TokenResponse(i, resp) ==
    /\ calls[i].pc = "tokenFetch"
    /\ resp.access_token = Str(issued + 1) => issued < MaxIssued
    /\ issued' = IF resp.access_token = Str(issued + 1) THEN issued + 1 ELSE issued
    /\ LET slot == [calls[i] EXCEPT !.tokenResp = resp, !.pendingSince = 0]
           r == Renewal(resp, now)
       IN IF r.k = "throw"
          THEN /\ calls' = [calls EXCEPT ![i] = Caught(slot, r.error)]
               /\ UNCHANGED <<accessToken, tokenExpiryTime, upstreamExpiry>>
          ELSE /\ accessToken' = r.accessToken
               /\ tokenExpiryTime' = r.tokenExpiryTime
               /\ \E at \in IssueInstants(calls[i]) :
                     upstreamExpiry' = UpstreamExpiry(at, resp.expires_in)
               /\ calls' = [calls EXCEPT ![i] =
                    [slot EXCEPT !.pc = "haveToken", !.token = r.accessToken]]
    /\ UNCHANGED <<now, mode, process, listed, formatter>>

\* Resource requests the activation has made.
Stage(slot) == Len(slot.sent) - (IF slot.via = "renewal" THEN 1 ELSE 0)

(***************************************************************************)
(* The operation function resumes with its token and issues its first      *)
(* resource request.                                                       *)
(***************************************************************************)
SendRequest(i) ==
    /\ calls[i].pc = "haveToken"
    /\ calls' = [calls EXCEPT ![i] =
         [@ EXCEPT !.pc = "resFetch",
                   !.sent = Append(@, ResourceRequest(calls[i].req.name, 1,
                                        calls[i].req.args, calls[i].token))]]
    /\ UNCHANGED <<now, accessToken, tokenExpiryTime, issued, mode>>
    /\ UNCHANGED <<process, listed, formatter, upstreamExpiry>>

(***************************************************************************)
(* A resource endpoint's answer arrives: the operation throws, issues its  *)
(* next request, or returns its text and the handler wraps it.             *)
(***************************************************************************)
ResourceResponse(i, resp) ==
    /\ calls[i].pc = "resFetch"
    /\ LET slot == [calls[i] EXCEPT !.resResp = resp]
           name == slot.req.name
       IN calls' = [calls EXCEPT ![i] =
            IF resp.k # "ok" \/ resp.body = "malformed"
            THEN Caught(slot, ResourceError(resp))
            ELSE IF Stage(slot) < Stages(name)
            THEN [slot EXCEPT !.sent = Append(@,
                    ResourceRequest(name, Stage(slot) + 1, slot.req.args, slot.token))]
            ELSE [slot EXCEPT !.pc = "done",
                    !.response = ResultEnvelope(ResultText(name, resp.body))]]
    /\ UNCHANGED <<now, accessToken, tokenExpiryTime, issued, mode>>
    /\ UNCHANGED <<process, listed, formatter, upstreamExpiry>>

\* The envelope is handed to the transport; the slot is free again.
Return(i) ==
    /\ calls[i].pc = "done"
    /\ calls' = [calls EXCEPT ![i] = IdleSlot]
    /\ UNCHANGED <<now, accessToken, tokenExpiryTime, issued, mode>>
    /\ UNCHANGED <<process, listed, formatter, upstreamExpiry>>

\* Time passes.
Tick ==
    /\ now < (MaxTicks + 1) * TickMs
    /\ now' = now + TickMs
    /\ UNCHANGED <<accessToken, tokenExpiryTime, issued, calls, mode>>
    /\ UNCHANGED <<process, listed, formatter, upstreamExpiry>>

(***************************************************************************)
(* Startup: the module's top level validates the environment, exits or     *)
(* constructs the server and registers its handlers; runServer then        *)
(* connects the transport.                                                 *)
(***************************************************************************)
MutValidateOnlyUnset(name) ==
    IF env[name] = Undefined
    THEN [ok |-> FALSE, out |-> <<Line("missing", name)>>]
    ELSE [ok |-> TRUE,
          out |-> IF HasQuoteOrSpace(env[name])
                  THEN <<Line("warning", name)>> ELSE <<>>]
validateEnvVar(name) ==
    IF ~IsSet(env[name])
    THEN [ok |-> FALSE, out |-> <<Line("missing", name)>>]
    ELSE [ok |-> TRUE,
          out |-> IF HasQuoteOrSpace(env[name])
                  THEN <<Line("warning", name)>> ELSE <<>>]

\* validateEnvVar(..) && validateEnvVar(..) && validateEnvVar(..): a later
\* variable is validated only when the earlier ones are set.
envVarsValid ==
    LET id == validateEnvVar(EnvNames[1])
        secret == validateEnvVar(EnvNames[2])
        refresh == validateEnvVar(EnvNames[3])
    IN IF ~id.ok THEN id
       ELSE IF ~secret.ok THEN [ok |-> FALSE, out |-> id.out \o secret.out]
       ELSE [ok |-> refresh.ok, out |-> id.out \o secret.out \o refresh.out]

Startup ==
    /\ server = "absent"
    /\ exitCode = Undefined
    /\ IF ~envVarsValid.ok
       THEN /\ stderr' = stderr \o envVarsValid.out \o <<Line("required", "")>>
            /\ exitCode' = Num(1)
            /\ UNCHANGED server
       ELSE /\ stderr' = stderr \o envVarsValid.out \o <<Line("validated", "")>>
            /\ server' = "connecting"
            /\ UNCHANGED exitCode
    /\ UNCHANGED <<env, dispatch, listed, formatter>>

Connect(ok) ==
    /\ server = "connecting"
    /\ exitCode = Undefined
    /\ IF ok
       THEN /\ server' = "serving"
            /\ stderr' = Append(stderr, Line("running", ""))
            /\ UNCHANGED exitCode
       ELSE /\ exitCode' = Num(1)
            /\ stderr' = Append(stderr, Line("fatal", ""))
            /\ UNCHANGED server
    /\ UNCHANGED <<env, dispatch, listed, formatter>>

(***************************************************************************)
(* The list-tools handler.                                                 *)
(***************************************************************************)
ListToolsCall ==
    /\ Serving
    /\ listed = <<>>
    /\ listed' = ListTools
    /\ UNCHANGED <<dispatch, process, formatter>>

\* The reply is handed to the transport.
ListToolsReturn ==
    /\ listed # <<>>
    /\ listed' = <<>>
    /\ UNCHANGED <<dispatch, process, formatter>>

(***************************************************************************)
(* formatDuration applied to its argument.                                 *)
(***************************************************************************)
FormatDuration ==
    /\ formatted = <<>>
    /\ formatted' = formatDuration(duration)
    /\ UNCHANGED <<duration, dispatch, process, listed>>

InitFormat ==
    /\ InitServing
    /\ mode = "format"
    /\ duration \in Durations

Next ==
    \/ \E i \in Slots : \E req \in Requests : CallTool(i, req)
    \/ \E i \in Slots : \E resp \in Upstream : TokenResponse(i, resp)
    \/ \E i \in Slots : SendRequest(i)
    \/ \E i \in Slots : \E resp \in ResourceResponses : ResourceResponse(i, resp)
    \/ \E i \in Slots : Return(i)
    \/ Tick

Spec == Init /\ [][Next]_vars
SpecUpstream == InitUpstream /\ [][Next]_vars
SpecConcurrent == InitConcurrent /\ [][Next]_vars
SpecDelay == InitDelay /\ [][Next]_vars

\* The whole server, from the first statement of the process.
NextServer ==
    \/ Startup
    \/ \E ok \in BOOLEAN : Connect(ok)
    \/ ListToolsCall
    \/ ListToolsReturn
    \/ Next
SpecStartup == InitStartup /\ [][NextServer]_vars

\* The formatter alone.
SpecFormat == InitFormat /\ [][FormatDuration]_vars


(***************************************************************************)
(* Properties.                                                             *)
(***************************************************************************)
\* The activation in slot i took a step of its own.
Stepped(i) == calls'[i] # calls[i]
\* Slot i received a call-tool request in this step.
Received(i) == calls[i].pc = "idle" /\ calls'[i].pc # "idle"
CacheUnchanged == UNCHANGED <<accessToken, tokenExpiryTime>>
TokenRequests(slot) ==
    {k \in 1..Len(slot.sent) : slot.sent[k].endpoint = "POST /api/token"}

\* C1: every call-tool request whose tool name is not one of the six known
\* names, with or without an arguments object, is answered isError = true with
\* the text "Unknown tool: <name>", and no request is made to the token
\* endpoint or to a resource endpoint.
C1_UnknownToolAlways ==
    \A i \in Slots :
        (calls[i].pc # "idle" /\ calls[i].req.name \notin CaseLabels)
        => /\ calls[i].pc = "done"
           /\ calls[i].response.isError
           /\ calls[i].response.text = Text("Unknown tool: ", "", calls[i].req.name, 0)
           /\ calls[i].sent = <<>>

\* C2: the handler always ends with one envelope; when an error was raised
\* inside the dispatch the envelope is isError = true with the text "Error: "
\* followed by the error's message, and isError = false is returned only when
\* the operation function returned its text after its last request succeeded.
C2_AlwaysEnvelope ==
    \A i \in Slots :
        /\ calls[i].pc # "done" =>
             calls[i].response = NoEnvelope /\ calls[i].error = NoError
        /\ calls[i].pc = "done" =>
             /\ calls[i].response # NoEnvelope
             /\ calls[i].response.isError \in BOOLEAN
             /\ calls[i].error # NoError =>
                  /\ calls[i].response.isError
                  /\ calls[i].response.text.prefix = "Error: "
                  /\ calls[i].response.text.msg = calls[i].error.msg
                  /\ calls[i].response.text.name = calls[i].error.name
                  /\ calls[i].response.text.status = calls[i].error.status
             /\ ~calls[i].response.isError =>
                  /\ calls[i].error = NoError
                  /\ calls[i].resResp.k = "ok"
                  /\ calls[i].resResp.body # "malformed"
                  /\ Stage(calls[i]) = Stages(calls[i].req.name)
                  /\ calls[i].response.text.prefix = ""

C2_Witness ==
    \E i \in Slots :
        /\ calls[i].pc = "done"
        /\ calls[i].error.msg = "Failed to get access token: "
        /\ calls[i].response.isError

\* C3: when the arguments of a known tool fail its type guard, the dispatch
\* ends at once with isError = true and the text "Error: Invalid arguments for
\* <tool>"; getAccessToken is not called, the cache is unchanged and no
\* request is made.
C3_GuardFailsFast ==
    [][\A i \in Slots :
        (/\ Received(i)
         /\ calls'[i].req.hasArgs
         /\ calls'[i].req.name \in CaseLabels
         /\ ~Guard(calls'[i].req.name, calls'[i].req.args))
        => /\ calls'[i].pc = "done"
           /\ calls'[i].response.isError
           /\ calls'[i].response.text =
                Text("Error: ", "Invalid arguments for ", calls'[i].req.name, 0)
           /\ calls'[i].via = "none"
           /\ calls'[i].sent = <<>>
           /\ CacheUnchanged]_vars

C3_Witness ==
    \E i \in Slots :
        /\ calls[i].pc = "done"
        /\ calls[i].req.name = ADD_TRACKS_TO_PLAYLIST
        /\ calls[i].req.args.playlist_id = Str(1)
        /\ calls[i].req.args.track_uris = Str(1)
        /\ calls[i].response.isError

\* C4: a getAccessToken call made while a non-empty token is cached and the
\* clock is strictly before the cached expiry returns the cached token, makes
\* no token-endpoint request and leaves accessToken and tokenExpiryTime as
\* they were (so calls in a row return the same token).
C4_CacheHit ==
    [][\A i \in Slots :
        (/\ Received(i)
         /\ calls'[i].via # "none"
         /\ accessToken.t = "string" /\ accessToken.v # 0
         /\ tokenExpiryTime.t = "number" /\ now < tokenExpiryTime.v)
        => /\ calls'[i].via = "cache"
           /\ calls'[i].token = accessToken
           /\ TokenRequests(calls'[i]) = {}
           /\ CacheUnchanged]_vars

C4_Witness ==
    \E i \in Slots : calls[i].via = "cache" /\ calls[i].token = Str(1) /\ now > TickMs

\* C5: every token getAccessToken returns is, at the moment it is returned, a
\* non-empty string whose cached expiry is strictly later than the clock, on
\* a cache hit and directly after a renewal, whatever 2xx answer the token
\* endpoint sent.
C5_ReturnedTokenUnexpired ==
    [][\A i \in Slots :
        (calls[i].pc # "haveToken" /\ calls'[i].pc = "haveToken")
        => /\ calls'[i].token.t = "string" /\ calls'[i].token.v # 0
           /\ tokenExpiryTime'.t = "number" /\ tokenExpiryTime'.v > now']_vars

\* C6: a successful renewal sets the cached expiry to the clock reading of the
\* write plus nine tenths of expires_in * 1000 ms; expires_in = 3600 at clock
\* reading T gives T + 3240000.
C6_ExpiryNineTenths ==
    [][\A i \in Slots :
        (/\ calls[i].pc = "tokenFetch" /\ calls'[i].pc = "haveToken"
         /\ calls'[i].tokenResp.expires_in.t = "number")
        => /\ tokenExpiryTime'.t = "number"
           /\ 10 * tokenExpiryTime'.v =
                10 * now + 9 * calls'[i].tokenResp.expires_in.v * 1000
           /\ calls'[i].tokenResp.expires_in.v = 3600 =>
                tokenExpiryTime'.v = now + 3240000]_vars

C6_Witness ==
    \E i \in Slots :
        /\ calls[i].pc = "haveToken" /\ calls[i].via = "renewal"
        /\ calls[i].tokenResp.expires_in = Num(3600)
        /\ tokenExpiryTime = Num(now + 3240000)
        /\ now > TickMs

\* C7: when the renewal exchange ends in a non-2xx answer, a malformed body
\* (no JSON, or JSON without access_token or expires_in) or a network error,
\* getAccessToken fails with an error and accessToken and tokenExpiryTime keep
\* the values they had.
RenewalFailed(resp) ==
    \/ resp.k \in {"neterr", "status"}
    \/ resp.body \in {"notjson", "null"}
    \/ resp.body = "object" /\ Undefined \in {resp.access_token, resp.expires_in}

C7_FailedRenewalKeepsCache ==
    [][\A i \in Slots :
        (/\ calls[i].pc = "tokenFetch" /\ Stepped(i)
         /\ RenewalFailed(calls'[i].tokenResp))
        => /\ calls'[i].pc = "done"
           /\ calls'[i].error # NoError
           /\ calls'[i].response.isError
           /\ CacheUnchanged]_vars

\* C8: a non-2xx answer to any resource request ends the dispatch with
\* isError = true and a text holding the upstream status code; accessToken and
\* tokenExpiryTime are unchanged and no further request is made.
C8_UpstreamErrorSurfaced ==
    [][\A i \in Slots :
        (/\ calls[i].pc = "resFetch" /\ Stepped(i)
         /\ calls'[i].resResp.k = "status")
        => /\ calls'[i].pc = "done"
           /\ calls'[i].response.isError
           /\ calls'[i].response.text.prefix = "Error: "
           /\ calls'[i].response.text.status = calls'[i].resResp.status
           /\ calls'[i].response.text.status \in ErrorStatuses
           /\ calls'[i].sent = calls[i].sent
           /\ CacheUnchanged]_vars

C8_Witness ==
    \E i \in Slots :
        /\ calls[i].pc = "done"
        /\ calls[i].req.name = GET_PLAYLIST_TRACKS
        /\ Stage(calls[i]) = 2
        /\ calls[i].resResp.status = 401
        /\ calls[i].response.text.status = 401
        /\ accessToken = Str(1)

\* C9: a get-recommendations dispatch whose seed arrays hold 0 or more than 5
\* seeds together ends with isError = true before any credential fetch or
\* request; with 1 to 5 seeds it calls getAccessToken, and the request it then
\* issues is the recommendations request.
SeedArrays(args) ==
    \A f \in {args.seed_tracks, args.seed_artists, args.seed_genres} :
        f.t \in {"undefined", "array"}
Seeds(args) == args.seed_tracks.v + args.seed_artists.v + args.seed_genres.v

C9_SeedCount ==
    [][\A i \in Slots :
        /\ (/\ Received(i)
            /\ calls'[i].req.hasArgs
            /\ calls'[i].req.name = GET_RECOMMENDATIONS
            /\ SeedArrays(calls'[i].req.args))
           => IF Seeds(calls'[i].req.args) \in 1..5
              THEN calls'[i].via # "none"
                   /\ calls'[i].pc \in {"haveToken", "tokenFetch"}
              ELSE /\ calls'[i].pc = "done"
                   /\ calls'[i].response.isError
                   /\ calls'[i].response.text.prefix = "Error: "
                   /\ calls'[i].via = "none"
                   /\ calls'[i].sent = <<>>
                   /\ CacheUnchanged
        /\ (/\ calls[i].pc = "haveToken" /\ Stepped(i)
            /\ calls[i].req.name = GET_RECOMMENDATIONS)
           => /\ calls'[i].pc = "resFetch"
              /\ Len(calls'[i].sent) = Len(calls[i].sent) + 1
              /\ calls'[i].sent[Len(calls'[i].sent)].endpoint =
                   "GET /v1/recommendations"]_vars

C9_Witness ==
    \E i \in Slots :
        /\ calls[i].pc = "resFetch"
        /\ calls[i].req.name = GET_RECOMMENDATIONS
        /\ SeedArrays(calls[i].req.args)
        /\ Seeds(calls[i].req.args) = 5

\* C10: a limit above the operation's maximum is sent upstream as that
\* maximum: 50 for search-tracks and list-user-playlists, 100 for
\* get-recommendations and list-playlist-tracks; search-tracks with limit 75
\* sends limit 50.
LimitCap(name) ==
    IF name \in {SEARCH_TRACKS, GET_USER_PLAYLISTS} THEN 50 ELSE 100

C10_LimitCapped ==
    \A i \in Slots :
        \A k \in 1..Len(calls[i].sent) :
            (/\ calls[i].sent[k].limit # Undefined
             /\ calls[i].req.args.limit.t = "number"
             /\ calls[i].req.args.limit.v > LimitCap(calls[i].req.name))
            => calls[i].sent[k].limit = Num(LimitCap(calls[i].req.name))

C10_Witness ==
    \E i \in Slots :
        /\ calls[i].req.name = SEARCH_TRACKS
        /\ calls[i].req.args.limit = Num(75)
        /\ calls[i].pc = "resFetch"
        /\ calls[i].sent[Len(calls[i].sent)].limit = Num(50)

\* C11: the limit sent upstream always lies in the documented range, 1..50
\* for search-tracks and list-user-playlists and 1..100 for
\* get-recommendations and list-playlist-tracks, whatever integer the caller
\* supplies, 0 and negative values included.
C11_LimitInRange ==
    \A i \in Slots :
        \A k \in 1..Len(calls[i].sent) :
            (/\ calls[i].sent[k].limit # Undefined
             /\ calls[i].req.args.limit.t = "number")
            => /\ calls[i].sent[k].limit.t = "number"
               /\ calls[i].sent[k].limit.v \in 1..LimitCap(calls[i].req.name)

\* C12: a request whose required string argument is the empty string, or an
\* add-tracks request whose track_uris is an empty array, is answered with
\* an error envelope before any credential is fetched or any request is sent.
RequiredStrings(name, args) ==
    CASE name = SEARCH_TRACKS -> {args.query}
      [] name = CREATE_PLAYLIST -> {args.name}
      [] name = ADD_TRACKS_TO_PLAYLIST -> {args.playlist_id}
      [] name = GET_PLAYLIST_TRACKS -> {args.playlist_id}
      [] OTHER -> {}

HasEmptyRequired(req) ==
    /\ req.hasArgs
    /\ req.name \in CaseLabels
    /\ \/ Str(0) \in RequiredStrings(req.name, req.args)
       \/ req.name = ADD_TRACKS_TO_PLAYLIST /\ req.args.track_uris = Arr(0)

C12_EmptyRequiredRejected ==
    [][\A i \in Slots :
          (Received(i) /\ HasEmptyRequired(calls'[i].req))
          => /\ calls'[i].pc = "done"
             /\ calls'[i].response.isError
             /\ calls'[i].via = "none"
             /\ calls'[i].sent = <<>>]_vars

\* C13: when the listing answered 2xx with no items, list-user-playlists
\* returns "You don't have any playlists yet." and list-playlist-tracks
\* returns the text saying the named playlist is empty, both with
\* isError = false.
EmptyStateText(name) ==
    IF name = GET_USER_PLAYLISTS THEN "You don't have any playlists yet."
    ELSE "Playlist \"{playlistData.name}\" is empty."

EmptyListing(slot) ==
    /\ slot.pc = "done"
    /\ slot.req.name \in {GET_USER_PLAYLISTS, GET_PLAYLIST_TRACKS}
    /\ slot.resResp.k = "ok"
    /\ slot.resResp.body = "empty"

C13_EmptyStateNotError ==
    \A i \in Slots :
        EmptyListing(calls[i])
        => /\ calls[i].response.isError = FALSE
           /\ calls[i].response.text = Text("", EmptyStateText(calls[i].req.name), "", 0)

C13_Witness ==
    \E i \in Slots :
        /\ EmptyListing(calls[i])
        /\ calls[i].req.name = GET_PLAYLIST_TRACKS
        /\ Len(calls[i].sent) >= 2
        /\ calls[i].response.isError = FALSE

\* C14: when any of the three configuration values is unset or empty, the
\* process exits with a non-zero status before the server is constructed,
\* and no list-tools or call-tool request is ever served.
Missing(value) == value = Undefined \/ value = EnvString(<<>>)
StartupRan == stderr # <<>>

C14_MissingValueExits ==
    (\E name \in EnvNameSet : Missing(env[name]))
    => /\ server = "absent"
       /\ \A i \in Slots : calls[i] = IdleSlot
       /\ listed = <<>>
       /\ StartupRan => exitCode \in {Num(n) : n \in 1..255}

C14_Witness ==
    /\ env["SPOTIFY_CLIENT_ID"] = CleanValue
    /\ env["SPOTIFY_CLIENT_SECRET"] = EnvString(<<>>)
    /\ StartupRan
    /\ exitCode = Num(1)
    /\ server = "absent"

\* C15: each configuration value that is set but begins or ends with a quote
\* or a whitespace character (space, tab, newline) gets a warning on stderr,
\* and startup goes on to construct and connect the server.
Contaminated(value) ==
    \E c \in {"\"", "'", " ", "\t", "\n"} :
        value.chars[1] = c \/ value.chars[Len(value.chars)] = c

Warned(name) ==
    \E k \in 1..Len(stderr) : stderr[k] = Line("warning", name)

C15_ContaminationWarned ==
    (StartupRan /\ \A name \in EnvNameSet : ~Missing(env[name]))
    => /\ server \in {"connecting", "serving"}
       /\ \A name \in EnvNameSet : Contaminated(env[name]) => Warned(name)

\* C16: a list-tools request is answered with exactly six descriptors whose
\* names are pairwise distinct and come in one fixed order, and answering it
\* touches neither the credential cache nor the network; the advertised
\* names are the routed names: a dispatch under an advertised name is never
\* answered "Unknown tool", and a dispatch under any other name reaches no
\* operation.
Advertised == {listed[k] : k \in 1..Len(listed)}

ListToolsAnswered == listed = <<>> /\ listed' # <<>>

C16_ListTools ==
    /\ [][ListToolsAnswered
          => /\ Len(listed') = 6
             /\ \A j, k \in 1..Len(listed') : j # k => listed'[j] # listed'[k]
             /\ listed' = << "spotify_search_tracks", "spotify_get_recommendations",
                             "spotify_create_playlist",
                             "spotify_add_tracks_to_playlist",
                             "spotify_get_user_playlists",
                             "spotify_get_playlist_tracks" >>
             /\ UNCHANGED <<accessToken, tokenExpiryTime, issued, calls>>]_vars
    /\ [](listed # <<>>
          => \A i \in Slots :
                calls[i].pc # "idle"
                => IF calls[i].req.name \in Advertised
                   THEN calls[i].response.text.prefix # "Unknown tool: "
                   ELSE /\ calls[i].via = "none"
                        /\ calls[i].sent = <<>>
                        /\ calls[i].pc = "done")

C16_Witness ==
    /\ Len(listed) = 6
    /\ \E i \in Slots :
          /\ calls[i].req.name = "spotify_get_playlist_tracks"
          /\ calls[i].req.name \in Advertised
          /\ calls[i].pc = "resFetch"

\* C17: for every non-negative integer ms, formatDuration(ms) is the decimal
\* text of floor(ms / 60000), a colon, and floor(ms / 1000) mod 60 written
\* with exactly two digits: 125000 gives "2:05", 59999 gives "0:59" and
\* 600000 gives "10:00".
RECURSIVE Decimal(_, _)
\* The number the digit characters of str denote, after the prefix acc.
Decimal(str, acc) ==
    IF str = <<>> THEN acc
    ELSE Decimal(Tail(str),
                 acc * 10 + CHOOSE d \in 0..9 : Digit(d) = Head(str))

IsDigits(str) ==
    \A k \in 1..Len(str) : \E d \in 0..9 : str[k] = Digit(d)

Examples ==
    [ms \in {125000, 59999, 600000} |->
        CASE ms = 125000 -> <<"2", ":", "0", "5">>
          [] ms = 59999 -> <<"0", ":", "5", "9">>
          [] OTHER -> <<"1", "0", ":", "0", "0">>]

C17_FormatDuration ==
    formatted # <<>>
    => LET n == Len(formatted)
           minutes == SubSeq(formatted, 1, n - 3)
           seconds == SubSeq(formatted, n - 1, n)
       IN /\ n >= 4
          /\ formatted[n - 2] = ":"
          /\ IsDigits(minutes) /\ IsDigits(seconds)
          /\ Len(minutes) = 1 \/ Head(minutes) # "0"
          /\ Decimal(minutes, 0) = duration \div 60000
          /\ Decimal(seconds, 0) = (duration \div 1000) % 60
          /\ duration \in DOMAIN Examples => formatted = Examples[duration]

C17_Witness ==
    /\ duration = 125000
    /\ formatted = <<"2", ":", "0", "5">>

\* C18: a dispatch of a known tool with valid arguments calls getAccessToken
\* exactly once, the call has returned before the first resource request is
\* made, and every resource request of the dispatch, the second one of
\* create-playlist and list-playlist-tracks included, carries as bearer the
\* token that call returned; when getAccessToken throws, no resource request
\* is made.
ResourceRequests(slot) ==
    {k \in 1..Len(slot.sent) : slot.sent[k].endpoint # "POST /api/token"}

ValidDispatch(slot) ==
    /\ slot.pc # "idle"
    /\ slot.req.hasArgs
    /\ slot.req.name \in CaseLabels
    /\ Guard(slot.req.name, slot.req.args)
    /\ OperationPrefix(slot.req.name, slot.req.args) = NoError

C18_TokenBeforeRequests ==
    \A i \in Slots :
        LET slot == calls[i] IN
        ValidDispatch(slot)
        => /\ slot.via \in {"cache", "renewal"}
           /\ Cardinality(TokenRequests(slot)) = (IF slot.via = "renewal" THEN 1 ELSE 0)
           /\ TokenRequests(slot) \subseteq {1}
           /\ ResourceRequests(slot) # {}
              => /\ slot.pc \in {"resFetch", "done"}
                 /\ slot.via = "renewal"
                    => /\ slot.tokenResp \notin TokenFailures \cup {NoResponse}
                       /\ slot.token = slot.tokenResp.access_token
                 /\ \A k \in ResourceRequests(slot) : slot.sent[k].bearer = slot.token
           /\ slot.tokenResp \in TokenFailures
              => ResourceRequests(slot) = {} /\ slot.pc = "done"

C18_Witness ==
    \E i \in Slots :
        /\ calls[i].req.name = CREATE_PLAYLIST
        /\ calls[i].via = "renewal"
        /\ calls[i].token = Str(1)
        /\ Cardinality(ResourceRequests(calls[i])) = 2
        /\ \A k \in ResourceRequests(calls[i]) : calls[i].sent[k].bearer = Str(1)

\* C19: nothing is retried within one dispatch: at most one token request is
\* made; the resource requests are the first ones of the operation's fixed
\* sequence, each made once (create-playlist: GET current user, POST
\* playlist; list-playlist-tracks: GET playlist, GET tracks; the others a
\* single request); and after a request of the dispatch has failed the
\* dispatch makes no further request.
FixedOrder(name) ==
    CASE name = "spotify_search_tracks" -> <<"GET /v1/search">>
      [] name = "spotify_get_recommendations" -> <<"GET /v1/recommendations">>
      [] name = "spotify_create_playlist" ->
           <<"GET /v1/me", "POST /v1/users/{id}/playlists">>
      [] name = "spotify_add_tracks_to_playlist" ->
           <<"POST /v1/playlists/{id}/tracks">>
      [] name = "spotify_get_user_playlists" -> <<"GET /v1/me/playlists">>
      [] name = "spotify_get_playlist_tracks" ->
           <<"GET /v1/playlists/{id}", "GET /v1/playlists/{id}/tracks">>
      [] OTHER -> <<>>

\* The endpoints of the resource requests the activation has made, in order.
ResourceEndpoints(slot) ==
    [k \in 1..Cardinality(ResourceRequests(slot)) |->
        slot.sent[k + Cardinality(TokenRequests(slot))].endpoint]

RequestFailed(resp) == resp.k \in {"neterr", "status"}

\* The activation in slot i learns in this step that a request of it failed.
LearnsFailure(i) ==
    \/ calls'[i].tokenResp # calls[i].tokenResp /\ RequestFailed(calls'[i].tokenResp)
    \/ calls'[i].resResp # calls[i].resResp /\ RequestFailed(calls'[i].resResp)

C19_NoRetry ==
    /\ [](\A i \in Slots :
            /\ Cardinality(TokenRequests(calls[i])) <= 1
            /\ TokenRequests(calls[i]) \subseteq {1}
            /\ Len(ResourceEndpoints(calls[i])) <= Len(FixedOrder(calls[i].req.name))
            /\ ResourceEndpoints(calls[i]) =
                 SubSeq(FixedOrder(calls[i].req.name), 1,
                        Len(ResourceEndpoints(calls[i]))))
    /\ [][\A i \in Slots :
            /\ LearnsFailure(i)
               => /\ calls'[i].pc = "done"
                  /\ calls'[i].response.isError
                  /\ calls'[i].sent = calls[i].sent
            /\ calls[i].pc = "done" => calls'[i] \in {calls[i], IdleSlot}]_vars

C19_Witness ==
    \E i \in Slots :
        /\ calls[i].req.name = CREATE_PLAYLIST
        /\ calls[i].pc = "done"
        /\ RequestFailed(calls[i].resResp)
        /\ ResourceEndpoints(calls[i]) = <<"GET /v1/me">>

\* C20: when getAccessToken calls overlap while no valid token is cached,
\* each makes its own token request and each successful one returns the
\* token of its own answer; accessToken and tokenExpiryTime change only
\* together, in the step that completes a renewal, to the token and 90% of
\* the lifetime of that one answer, so the cache holds the pair of the
\* renewal that completed last; and a renewal that fails does not undo the
\* write of a renewal that overlapped it.
CacheFresh ==
    /\ accessToken.t = "string" /\ accessToken.v # 0
    /\ tokenExpiryTime.t = "number" /\ tokenExpiryTime.v > now

CompletesRenewal(i) == calls[i].pc = "tokenFetch" /\ calls'[i].pc # "tokenFetch"

\* The cache holds, still valid, what another activation's renewal wrote:
\* that renewal completed after the one of slot i began.
OverlappingWrite(i) ==
    /\ CacheFresh
    /\ \E j \in Slots \ {i} :
          /\ calls[j].via = "renewal"
          /\ calls[j].pc \in {"haveToken", "resFetch", "done"}
          /\ calls[j].token = accessToken

C20_OverlappingRenewals ==
    [][/\ \A i \in Slots :
            /\ (Received(i) /\ ValidDispatch(calls'[i]) /\ ~CacheFresh)
               => /\ calls'[i].pc = "tokenFetch"
                  /\ TokenRequests(calls'[i]) = {1}
            /\ CompletesRenewal(i)
               => LET resp == calls'[i].tokenResp IN
                  IF RenewalFailed(resp)
                  THEN OverlappingWrite(i) => CacheUnchanged
                  ELSE /\ calls'[i].pc = "haveToken"
                       /\ calls'[i].token = resp.access_token
                       /\ accessToken' = resp.access_token
                       /\ tokenExpiryTime' = Num(now + 900 * resp.expires_in.v)
       /\ (\A i \in Slots : ~CompletesRenewal(i)) => CacheUnchanged]_vars

\* C21: whenever the cached accessToken is non-empty, the cached expiry is
\* no later than the instant at which the upstream expires that token, its
\* issue instant plus expires_in seconds, whatever the delay between the
\* upstream issuing the token and the store writing the expiry.
C21_ExpiryNotAfterUpstream ==
    (accessToken.t = "string" /\ accessToken.v # 0)
    => /\ tokenExpiryTime.t = "number"
       /\ upstreamExpiry.t = "number"
       /\ tokenExpiryTime.v <= upstreamExpiry.v

\* C22: a call-tool request that carries no arguments object is answered
\* with isError = true and the text "Error: No arguments provided" whatever
\* its tool name, known or unknown, list-user-playlists included, and no
\* credential is fetched and no request is made for it.
C22_NoArguments ==
    \A i \in Slots :
        (calls[i].pc # "idle" /\ ~calls[i].req.hasArgs)
        => /\ calls[i].pc = "done"
           /\ calls[i].response.isError = TRUE
           /\ calls[i].response.text = Text("Error: ", "No arguments provided", "", 0)
           /\ calls[i].via = "none"
           /\ calls[i].token = Undefined
           /\ calls[i].sent = <<>>

C22_Witness ==
    \E i \in Slots :
        /\ calls[i].req.name = "spotify_get_user_playlists"
        /\ ~calls[i].req.hasArgs
        /\ calls[i].pc = "done"
        /\ calls[i].response.text.msg = "No arguments provided"

====
